---- MODULE Spec2Model ----
(***************************************************************************)
(* MCP7940M real-time clock driver (MCP7940M.c / MCP7940M.h).              *)
(*                                                                         *)
(* The driver keeps a ClockState (struct MCP7940M) and moves it to and     *)
(* from the device's time-keeping registers, one I2C memory transaction    *)
(* per field.  The model has the struct, the device register file, the     *)
(* position of the caller inside MCP7940M_Init / _GetTime / _SetTime, and  *)
(* the bus transactions of the call in progress.                           *)
(*                                                                         *)
(* The field accessors call HAL_ReadRegister / HAL_WriteRegister, names    *)
(* that no file of the repository defines; the only functions with that    *)
(* signature are MCP7940M_ReadRegister / MCP7940M_WriteRegister, and the   *)
(* model resolves the calls to them.                                       *)
(***************************************************************************)
EXTENDS Integers, Sequences, FiniteSets

\* Bounds of the environment: bus transactions that may fail in one run, and
\* one-second advances of the device clock in one run.
MaxFail == 1
MaxTicks == 2

(***************************************************************************)
(* 8-bit arithmetic                                                        *)
(***************************************************************************)
Byte == 0 .. 255

uint8(x) == x % 256

RECURSIVE BitAnd(_, _)
BitAnd(a, b) ==
    IF a = 0 \/ b = 0 THEN 0
    ELSE (a % 2) * (b % 2) + 2 * BitAnd(a \div 2, b \div 2)

RECURSIVE BitOr(_, _)
BitOr(a, b) ==
    IF a = 0 THEN b
    ELSE IF b = 0 THEN a
    ELSE (IF a % 2 = 1 \/ b % 2 = 1 THEN 1 ELSE 0) + 2 * BitOr(a \div 2, b \div 2)

ShiftLeft(x, n) == x * 2 ^ n

ShiftRight(x, n) == x \div 2 ^ n

\* ~m of an int, seen through the low eight bits that a uint8_t operand keeps.
BitNot(m) == 255 - m

\* The value of a hexadecimal literal, most significant digit first.
RECURSIVE HexLiteral(_)
HexLiteral(digits) ==
    IF digits = << >> THEN 0
    ELSE 16 * HexLiteral(SubSeq(digits, 1, Len(digits) - 1)) + digits[Len(digits)]

(***************************************************************************)
(* MCP7940M.h                                                              *)
(***************************************************************************)
\* #define MCP7940M_I2C_ADDRESS (0x1101111 << 1): the literal is hexadecimal.
MCP7940M_I2C_ADDRESS == ShiftLeft(HexLiteral(<<1, 1, 0, 1, 1, 1, 1>>), 1)

MCP7940M_REG_RTCSEC == 0
MCP7940M_REG_RTCMIN == 1
MCP7940M_REG_RTCHOUR == 2
MCP7940M_REG_RTCWKDAY == 3
MCP7940M_REG_RTCDATE == 4
MCP7940M_REG_RTCMTH == 5
MCP7940M_REG_RTCYEAR == 6
MCP7940M_REG_CONTROL == 7
MCP7940M_REG_OSCTRIM == 8

\* The registers of the device the model stores.
Registers == MCP7940M_REG_RTCSEC .. MCP7940M_REG_OSCTRIM

TimeRegisters == MCP7940M_REG_RTCSEC .. MCP7940M_REG_RTCYEAR

MONDAY == 0
SUNDAY == 6

Fields == {"seconds", "minutes", "hours", "weekday", "date", "month", "year"}

(***************************************************************************)
(* Register codec                                                          *)
(***************************************************************************)
BCDToBinary_HexTens(bcd) ==
    LET tens == ShiftRight(bcd, 4)
        ones == BitAnd(bcd, 15)
    IN  uint8(tens * 16 + ones)

BCDToBinary(bcd) ==
    LET tens == ShiftRight(bcd, 4)
        ones == BitAnd(bcd, 15)
    IN  uint8(tens * 10 + ones)

binaryToBCD_NoShift(binary) ==
    LET tens == uint8(binary \div 10)
        ones == uint8(binary % 10)
    IN  uint8(BitOr(tens, ones))

binaryToBCD(binary) ==
    LET tens == uint8(binary \div 10)
        ones == uint8(binary % 10)
    IN  uint8(BitOr(ShiftLeft(tens, 4), ones))

(***************************************************************************)
(* Field accessors: the byte-to-field and field-to-byte halves             *)
(***************************************************************************)
SecondsFromRegister_NoMask(b) == BCDToBinary(b)

\* bcdSeconds &= 0b01111111; seconds = BCDToBinary(bcdSeconds)
SecondsFromRegister(b) == BCDToBinary(BitAnd(b, 127))

MinutesFromRegister(b) == BCDToBinary(b)

\* bcdHours &= 0b00111111
HoursFromRegister(b) == BCDToBinary(BitAnd(b, 63))

\* weekday &= 0b00000111, no decode
WeekdayFromRegister(b) == BitAnd(b, 7)

DateFromRegister(b) == BCDToBinary(b)

MonthFromRegister_KeepHigh(b) == BCDToBinary(BitAnd(b, BitNot(32)))

\* bcdMonth &= 0b00011111
MonthFromRegister(b) == BCDToBinary(BitAnd(b, 31))

YearFromRegister(b) == BCDToBinary(b)

SecondsToRegister_NoST(s) == uint8(binaryToBCD(s))

\* bcdSeconds | 1 << 7, converted to the uint8_t parameter
SecondsToRegister(s) == uint8(BitOr(binaryToBCD(s), ShiftLeft(1, 7)))

MinutesToRegister(m) == uint8(binaryToBCD(m))

\* bcdHours & ~(1 << 6)
HoursToRegister(h) == uint8(BitAnd(binaryToBCD(h), BitNot(ShiftLeft(1, 6))))

\* the enum value, converted to the uint8_t parameter
WeekdayToRegister(w) == uint8(w)

DateToRegister(d) == uint8(binaryToBCD(d))

\* bcdMonth & ~(1 << 5)
MonthToRegister(m) == uint8(BitAnd(binaryToBCD(m), BitNot(ShiftLeft(1, 5))))

YearToRegister(y) == uint8(binaryToBCD(y))

(***************************************************************************)
(* State                                                                   *)
(***************************************************************************)
VARIABLES
    clk,         \* the MCP7940M struct's time fields (ClockState)
    regs,        \* the device's register file
    pc,          \* where the caller is: "boot", "idle", or the next statement
                 \* of the MCP7940M_GetTime / MCP7940M_SetTime body
    call,        \* what the caller did last (or is doing): "Init", "GetTime",
                 \* "SetTime", or "Assign" for an assignment to the struct
    prev,        \* what the caller did before that
    trace,       \* the bus transactions of that call, in order
    ret,         \* the status the last GetTime / SetTime returned
    saved,       \* the ClockState as it was when SetTime was last called
    snaps,       \* the contents the time registers held during the GetTime
                 \* call in progress (or just finished)
    want,        \* the time the caller assigns to the struct before SetTime
    stale,       \* the indeterminate byte a failed read leaves in the
                 \* accessor's uninitialised local (-1: none drawn yet)
    faultsLeft,  \* bus transactions that may still fail
    ticksLeft,   \* seconds the device clock may still advance
    codec        \* the codec functions applied to one input on their own

vars == <<clk, regs, pc, call, prev, trace, ret, saved, snaps, want, stale,
          faultsLeft, ticksLeft, codec>>

HAL_OK == "HAL_OK"
HAL_ERROR == "HAL_ERROR"
HAL_Status == {HAL_OK, HAL_ERROR}

ClockState(s, mi, h, w, d, mo, y) ==
    [seconds |-> s, minutes |-> mi, hours |-> h, weekday |-> w,
     date |-> d, month |-> mo, year |-> y]

\* The struct before MCP7940M_Init: no field is read before Init assigns it.
Unset == ClockState(0, 0, 0, 0, 0, 0, 0)

Snapshot(r) == [x \in TimeRegisters |-> r[x]]

(***************************************************************************)
(* Low-level functions: one I2C memory transaction each                    *)
(***************************************************************************)
\* data: the byte written, or the byte the caller's buffer holds afterwards.
Transaction(op, reg, data, st) ==
    [op |-> op, addr |-> MCP7940M_I2C_ADDRESS, reg |-> reg, data |-> data,
     st |-> st]

\* What the accessor's local holds after the transaction: the register's byte
\* on success; on failure the local was never written and is indeterminate.
\* The accessors' locals share one stack slot, so one indeterminate byte is
\* drawn per run, from all 256.
ReadBuffer(reg, st) ==
    IF st = HAL_OK THEN {regs[reg]}
    ELSE IF stale = -1 THEN Byte ELSE {stale}

\* HAL_I2C_Mem_Read(i2cHandle, MCP7940M_I2C_ADDRESS, reg, 8BIT, p_data, 1, 1000)
MCP7940M_ReadRegister(reg, st, buf) ==
    /\ st \in HAL_Status
    /\ st # HAL_OK => faultsLeft > 0
    /\ buf \in ReadBuffer(reg, st)
    /\ stale' = IF st = HAL_OK THEN stale ELSE buf
    /\ faultsLeft' = IF st = HAL_OK THEN faultsLeft ELSE faultsLeft - 1
    /\ trace' = Append(trace, Transaction("read", reg, buf, st))
    /\ UNCHANGED regs

\* HAL_I2C_Mem_Write(i2cHandle, MCP7940M_I2C_ADDRESS, reg, 8BIT, &data, 1, 1000)
MCP7940M_WriteRegister(reg, data, st) ==
    /\ st \in HAL_Status
    /\ st # HAL_OK => faultsLeft > 0
    /\ regs' = IF st = HAL_OK THEN [regs EXCEPT ![reg] = data] ELSE regs
    /\ faultsLeft' = IF st = HAL_OK THEN faultsLeft ELSE faultsLeft - 1
    /\ trace' = Append(trace, Transaction("write", reg, data, st))
    /\ UNCHANGED stale

(***************************************************************************)
(* Session orchestrator                                                    *)
(***************************************************************************)
\* The statements of MCP7940M_GetTime and MCP7940M_SetTime, in source order.
GetTimeBody_MinutesFirst ==
    <<"ReadMinutes", "ReadSeconds", "ReadHours", "ReadWeekday", "ReadDate",
      "ReadMonth", "ReadYear">>

GetTimeBody ==
    <<"ReadSeconds", "ReadMinutes", "ReadHours", "ReadWeekday", "ReadDate",
      "ReadMonth", "ReadYear">>

SetTimeBody ==
    <<"WriteSeconds", "WriteMinutes", "WriteHours", "WriteWeekday", "WriteDate",
      "WriteMonth", "WriteYear">>

\* The statement that follows stmt in body; end after the last one.
Following(body, stmt, end) ==
    LET i == CHOOSE k \in 1 .. Len(body) : body[k] = stmt
    IN  IF i = Len(body) THEN end ELSE body[i + 1]

MCP7940M_Init_ZeroDate ==
    /\ pc = "boot"
    /\ clk' = ClockState(0, 0, 0, MONDAY, 0, 0, 0)
    /\ \E st \in HAL_Status :
         MCP7940M_WriteRegister(MCP7940M_REG_RTCSEC, ShiftLeft(1, 7), st)
    /\ pc' = "idle"
    /\ call' = "Init"
    /\ prev' = call
    /\ UNCHANGED <<ret, saved, snaps, want, ticksLeft, codec>>

\* Assigns the seven fields, then one write that enables the oscillator.
MCP7940M_Init ==
    /\ pc = "boot"
    /\ clk' = ClockState(0, 0, 0, MONDAY, 1, 1, 0)
    /\ \E st \in HAL_Status :
         MCP7940M_WriteRegister(MCP7940M_REG_RTCSEC, ShiftLeft(1, 7), st)
    /\ pc' = "idle"
    /\ call' = "Init"
    /\ prev' = call
    /\ UNCHANGED <<ret, saved, snaps, want, ticksLeft, codec>>

\* Entry of MCP7940M_GetTime.
MCP7940M_GetTime ==
    /\ pc = "idle"
    /\ pc' = GetTimeBody[1]
    /\ call' = "GetTime"
    /\ prev' = call
    /\ trace' = << >>
    /\ snaps' = {Snapshot(regs)}
    /\ UNCHANGED <<clk, regs, ret, saved, want, stale, faultsLeft, ticksLeft, codec>>

\* return HAL_OK;
GetTimeReturn ==
    /\ pc = "GetTimeReturn"
    /\ ret' = HAL_OK
    /\ pc' = "idle"
    /\ UNCHANGED <<clk, regs, call, prev, trace, saved, snaps, want, stale,
                   faultsLeft, ticksLeft, codec>>

\* Entry of MCP7940M_SetTime.
MCP7940M_SetTime ==
    /\ pc = "idle"
    /\ pc' = SetTimeBody[1]
    /\ call' = "SetTime"
    /\ prev' = call
    /\ trace' = << >>
    /\ saved' = clk
    /\ snaps' = {}
    /\ UNCHANGED <<clk, regs, ret, want, stale, faultsLeft, ticksLeft, codec>>

\* return HAL_OK;
SetTimeReturn ==
    /\ pc = "SetTimeReturn"
    /\ ret' = HAL_OK
    /\ pc' = "idle"
    /\ UNCHANGED <<clk, regs, call, prev, trace, saved, snaps, want, stale,
                   faultsLeft, ticksLeft, codec>>

(***************************************************************************)
(* Field accessors                                                         *)
(***************************************************************************)
MCP7940M_ReadSeconds ==
    /\ pc = "ReadSeconds"
    /\ \E st \in HAL_Status :
         \E buf \in ReadBuffer(MCP7940M_REG_RTCSEC, st) :
            /\ MCP7940M_ReadRegister(MCP7940M_REG_RTCSEC, st, buf)
            /\ clk' = [clk EXCEPT !.seconds = SecondsFromRegister(buf)]
    /\ pc' = Following(GetTimeBody, "ReadSeconds", "GetTimeReturn")
    /\ UNCHANGED <<call, prev, ret, saved, snaps, want, ticksLeft, codec>>

MCP7940M_ReadMinutes_HoursRegister ==
    /\ pc = "ReadMinutes"
    /\ \E st \in HAL_Status :
         \E buf \in ReadBuffer(MCP7940M_REG_RTCHOUR, st) :
            /\ MCP7940M_ReadRegister(MCP7940M_REG_RTCHOUR, st, buf)
            /\ clk' = [clk EXCEPT !.minutes = MinutesFromRegister(buf)]
    /\ pc' = Following(GetTimeBody, "ReadMinutes", "GetTimeReturn")
    /\ UNCHANGED <<call, prev, ret, saved, snaps, want, ticksLeft, codec>>

MCP7940M_ReadMinutes ==
    /\ pc = "ReadMinutes"
    /\ \E st \in HAL_Status :
         \E buf \in ReadBuffer(MCP7940M_REG_RTCMIN, st) :
            /\ MCP7940M_ReadRegister(MCP7940M_REG_RTCMIN, st, buf)
            /\ clk' = [clk EXCEPT !.minutes = MinutesFromRegister(buf)]
    /\ pc' = Following(GetTimeBody, "ReadMinutes", "GetTimeReturn")
    /\ UNCHANGED <<call, prev, ret, saved, snaps, want, ticksLeft, codec>>

MCP7940M_ReadHours ==
    /\ pc = "ReadHours"
    /\ \E st \in HAL_Status :
         \E buf \in ReadBuffer(MCP7940M_REG_RTCHOUR, st) :
            /\ MCP7940M_ReadRegister(MCP7940M_REG_RTCHOUR, st, buf)
            /\ clk' = [clk EXCEPT !.hours = HoursFromRegister(buf)]
    /\ pc' = Following(GetTimeBody, "ReadHours", "GetTimeReturn")
    /\ UNCHANGED <<call, prev, ret, saved, snaps, want, ticksLeft, codec>>

MCP7940M_ReadWeekday ==
    /\ pc = "ReadWeekday"
    /\ \E st \in HAL_Status :
         \E buf \in ReadBuffer(MCP7940M_REG_RTCWKDAY, st) :
            /\ MCP7940M_ReadRegister(MCP7940M_REG_RTCWKDAY, st, buf)
            /\ clk' = [clk EXCEPT !.weekday = WeekdayFromRegister(buf)]
    /\ pc' = Following(GetTimeBody, "ReadWeekday", "GetTimeReturn")
    /\ UNCHANGED <<call, prev, ret, saved, snaps, want, ticksLeft, codec>>

MCP7940M_ReadDate ==
    /\ pc = "ReadDate"
    /\ \E st \in HAL_Status :
         \E buf \in ReadBuffer(MCP7940M_REG_RTCDATE, st) :
            /\ MCP7940M_ReadRegister(MCP7940M_REG_RTCDATE, st, buf)
            /\ clk' = [clk EXCEPT !.date = DateFromRegister(buf)]
    /\ pc' = Following(GetTimeBody, "ReadDate", "GetTimeReturn")
    /\ UNCHANGED <<call, prev, ret, saved, snaps, want, ticksLeft, codec>>

MCP7940M_ReadMonth ==
    /\ pc = "ReadMonth"
    /\ \E st \in HAL_Status :
         \E buf \in ReadBuffer(MCP7940M_REG_RTCMTH, st) :
            /\ MCP7940M_ReadRegister(MCP7940M_REG_RTCMTH, st, buf)
            /\ clk' = [clk EXCEPT !.month = MonthFromRegister(buf)]
    /\ pc' = Following(GetTimeBody, "ReadMonth", "GetTimeReturn")
    /\ UNCHANGED <<call, prev, ret, saved, snaps, want, ticksLeft, codec>>

MCP7940M_ReadYear ==
    /\ pc = "ReadYear"
    /\ \E st \in HAL_Status :
         \E buf \in ReadBuffer(MCP7940M_REG_RTCYEAR, st) :
            /\ MCP7940M_ReadRegister(MCP7940M_REG_RTCYEAR, st, buf)
            /\ clk' = [clk EXCEPT !.year = YearFromRegister(buf)]
    /\ pc' = Following(GetTimeBody, "ReadYear", "GetTimeReturn")
    /\ UNCHANGED <<call, prev, ret, saved, snaps, want, ticksLeft, codec>>

MCP7940M_WriteSeconds ==
    /\ pc = "WriteSeconds"
    /\ \E st \in HAL_Status :
         MCP7940M_WriteRegister(MCP7940M_REG_RTCSEC, SecondsToRegister(clk.seconds), st)
    /\ pc' = Following(SetTimeBody, "WriteSeconds", "SetTimeReturn")
    /\ UNCHANGED <<clk, call, prev, ret, saved, snaps, want, ticksLeft, codec>>

MCP7940M_WriteMinutes ==
    /\ pc = "WriteMinutes"
    /\ \E st \in HAL_Status :
         MCP7940M_WriteRegister(MCP7940M_REG_RTCMIN, MinutesToRegister(clk.minutes), st)
    /\ pc' = Following(SetTimeBody, "WriteMinutes", "SetTimeReturn")
    /\ UNCHANGED <<clk, call, prev, ret, saved, snaps, want, ticksLeft, codec>>

MCP7940M_WriteHours ==
    /\ pc = "WriteHours"
    /\ \E st \in HAL_Status :
         MCP7940M_WriteRegister(MCP7940M_REG_RTCHOUR, HoursToRegister(clk.hours), st)
    /\ pc' = Following(SetTimeBody, "WriteHours", "SetTimeReturn")
    /\ UNCHANGED <<clk, call, prev, ret, saved, snaps, want, ticksLeft, codec>>

MCP7940M_WriteWeekday ==
    /\ pc = "WriteWeekday"
    /\ \E st \in HAL_Status :
         MCP7940M_WriteRegister(MCP7940M_REG_RTCWKDAY, WeekdayToRegister(clk.weekday), st)
    /\ pc' = Following(SetTimeBody, "WriteWeekday", "SetTimeReturn")
    /\ UNCHANGED <<clk, call, prev, ret, saved, snaps, want, ticksLeft, codec>>

MCP7940M_WriteDate ==
    /\ pc = "WriteDate"
    /\ \E st \in HAL_Status :
         MCP7940M_WriteRegister(MCP7940M_REG_RTCDATE, DateToRegister(clk.date), st)
    /\ pc' = Following(SetTimeBody, "WriteDate", "SetTimeReturn")
    /\ UNCHANGED <<clk, call, prev, ret, saved, snaps, want, ticksLeft, codec>>

MCP7940M_WriteMonth ==
    /\ pc = "WriteMonth"
    /\ \E st \in HAL_Status :
         MCP7940M_WriteRegister(MCP7940M_REG_RTCMTH, MonthToRegister(clk.month), st)
    /\ pc' = Following(SetTimeBody, "WriteMonth", "SetTimeReturn")
    /\ UNCHANGED <<clk, call, prev, ret, saved, snaps, want, ticksLeft, codec>>

MCP7940M_WriteYear ==
    /\ pc = "WriteYear"
    /\ \E st \in HAL_Status :
         MCP7940M_WriteRegister(MCP7940M_REG_RTCYEAR, YearToRegister(clk.year), st)
    /\ pc' = Following(SetTimeBody, "WriteYear", "SetTimeReturn")
    /\ UNCHANGED <<clk, call, prev, ret, saved, snaps, want, ticksLeft, codec>>

DriverStep ==
    \/ MCP7940M_Init
    \/ MCP7940M_GetTime
    \/ MCP7940M_ReadSeconds
    \/ MCP7940M_ReadMinutes
    \/ MCP7940M_ReadHours
    \/ MCP7940M_ReadWeekday
    \/ MCP7940M_ReadDate
    \/ MCP7940M_ReadMonth
    \/ MCP7940M_ReadYear
    \/ GetTimeReturn
    \/ MCP7940M_SetTime
    \/ MCP7940M_WriteSeconds
    \/ MCP7940M_WriteMinutes
    \/ MCP7940M_WriteHours
    \/ MCP7940M_WriteWeekday
    \/ MCP7940M_WriteDate
    \/ MCP7940M_WriteMonth
    \/ MCP7940M_WriteYear
    \/ SetTimeReturn

(***************************************************************************)
(* Environment: the caller and the device                                  *)
(***************************************************************************)
\* The caller sets the desired time in the struct (between driver calls).
CallerAssign ==
    /\ pc = "idle"
    /\ clk # want
    /\ clk' = want
    /\ call' = "Assign"
    /\ prev' = call
    /\ UNCHANGED <<regs, pc, trace, ret, saved, snaps, want, stale,
                   faultsLeft, ticksLeft, codec>>

DeviceBCD(n) == 16 * (n \div 10) + (n % 10)

DeviceValue(b) == 10 * (b \div 16) + (b % 16)

DeviceDigits(b) == b % 16 <= 9 /\ b \div 16 <= 9

\* The device advances its time by one second: the oscillator runs (ST, bit 7
\* of the seconds register), the hours register is in 24-hour format, and the
\* three registers hold a time of day before 23:59:59 (no carry into the date).
DeviceTick ==
    /\ ticksLeft > 0
    /\ regs[MCP7940M_REG_RTCSEC] >= 128
    /\ regs[MCP7940M_REG_RTCHOUR] < 64
    /\ LET sec == regs[MCP7940M_REG_RTCSEC] - 128
           min == regs[MCP7940M_REG_RTCMIN]
           hour == regs[MCP7940M_REG_RTCHOUR]
           now == 3600 * DeviceValue(hour) + 60 * DeviceValue(min) + DeviceValue(sec)
           then == now + 1
       IN  /\ DeviceDigits(sec) /\ DeviceDigits(min) /\ DeviceDigits(hour)
           /\ DeviceValue(sec) <= 59 /\ DeviceValue(min) <= 59
           /\ DeviceValue(hour) <= 23
           /\ then < 24 * 3600
           /\ regs' = [regs EXCEPT
                         ![MCP7940M_REG_RTCSEC] = 128 + DeviceBCD(then % 60),
                         ![MCP7940M_REG_RTCMIN] = DeviceBCD((then \div 60) % 60),
                         ![MCP7940M_REG_RTCHOUR] = DeviceBCD(then \div 3600)]
    /\ ticksLeft' = ticksLeft - 1
    /\ snaps' = IF call = "GetTime" /\ pc # "idle"
                THEN snaps \cup {Snapshot(regs')}
                ELSE snaps
    /\ UNCHANGED <<clk, pc, call, prev, trace, ret, saved, want, stale,
                   faultsLeft, codec>>

(***************************************************************************)
(* The codec on its own                                                    *)
(***************************************************************************)
CodecIdle == [pc |-> "idle", binary |-> 0, bcd |-> 0, out |-> 0]

Encode ==
    /\ codec.pc = "input"
    /\ codec' = [codec EXCEPT !.pc = "encoded", !.bcd = binaryToBCD(codec.binary)]
    /\ UNCHANGED <<clk, regs, pc, call, prev, trace, ret, saved, snaps, want,
                   stale, faultsLeft, ticksLeft>>

Decode ==
    /\ codec.pc = "encoded"
    /\ codec' = [codec EXCEPT !.pc = "decoded", !.out = BCDToBinary(codec.bcd)]
    /\ UNCHANGED <<clk, regs, pc, call, prev, trace, ret, saved, snaps, want,
                   stale, faultsLeft, ticksLeft>>

(***************************************************************************)
(* Specifications                                                          *)
(***************************************************************************)
\* The example time of the documentation, and a time one second before the
\* seconds carry into the minutes and the hours.
ExampleTime == ClockState(45, 30, 13, 2, 15, 6, 24)

CarryTime == ClockState(59, 59, 22, SUNDAY, 31, 12, 99)

NaturalRange ==
    [seconds |-> 0 .. 59, minutes |-> 0 .. 59, hours |-> 0 .. 23,
     weekday |-> MONDAY .. SUNDAY, date |-> 1 .. 31, month |-> 1 .. 12,
     year |-> 0 .. 99]

InNaturalRange(c) == \A f \in Fields : c[f] \in NaturalRange[f]

\* What the caller of the store scenario puts in a field: a value of the
\* field's natural range, or any value of the uint8_t seconds field.
CallerRange == [NaturalRange EXCEPT !.seconds = Byte]

\* The times that differ from the example time in at most one field.
CallerTimes ==
    {c \in {[ExampleTime EXCEPT ![f] = v] : f \in Fields, v \in Byte} :
        \A f \in Fields : c[f] \in CallerRange[f]}

\* The time registers after power-up all hold the byte fill; the control and
\* trim registers hold 0.
PowerUp(fill) == [r \in Registers |-> IF r \in TimeRegisters THEN fill ELSE 0]

DriverInit(times, fills, faults, ticks) ==
    /\ clk = Unset
    /\ regs \in {PowerUp(fill) : fill \in fills}
    /\ pc = "boot"
    /\ call = "none"
    /\ prev = "none"
    /\ trace = << >>
    /\ ret = "none"
    /\ saved = Unset
    /\ snaps = {}
    /\ want \in times
    /\ stale = -1
    /\ faultsLeft = faults
    /\ ticksLeft = ticks

\* The driver, a caller that sets one of two times, and a device whose clock
\* runs; every bus transaction succeeds.
Init ==
    /\ DriverInit({ExampleTime, CarryTime}, {0, 255}, 0, MaxTicks)
    /\ codec = CodecIdle

Next == DriverStep \/ CallerAssign \/ DeviceTick

Spec == Init /\ [][Next]_vars

\* The driver on a bus whose transactions may fail; the device clock stands
\* still and the caller only calls the driver.
InitFaulty ==
    /\ DriverInit({ExampleTime}, {0}, MaxFail, 0)
    /\ codec = CodecIdle

NextFaulty == DriverStep

SpecFaulty == InitFaulty /\ [][NextFaulty]_vars

\* The driver against a register store that only stores what is written and
\* returns it: no failures, no running clock, a zeroed store.
InitStore ==
    /\ DriverInit(CallerTimes, {0}, 0, 0)
    /\ codec = CodecIdle

NextStore == DriverStep \/ CallerAssign

SpecStore == InitStore /\ [][NextStore]_vars

\* The driver against a device whose time registers hold any byte at
\* power-up; the caller sets one of two times.
InitPowerUp ==
    /\ DriverInit({ExampleTime, CarryTime}, Byte, 0, 0)
    /\ codec = CodecIdle

NextPowerUp == DriverStep \/ CallerAssign

SpecPowerUp == InitPowerUp /\ [][NextPowerUp]_vars

\* The codec applied to every 8-bit input.
InitCodec ==
    /\ DriverInit({ExampleTime}, {0}, 0, 0)
    /\ codec \in {[CodecIdle EXCEPT !.pc = "input", !.binary = v] : v \in Byte}

NextCodec == Encode \/ Decode

SpecCodec == InitCodec /\ [][NextCodec]_vars

(***************************************************************************)
(* Properties                                                              *)
(***************************************************************************)
\* What the properties say of a register byte, in arithmetic of their own.
Bit(b, k) == (b \div 2 ^ k) % 2

RECURSIVE ClearBits(_, _)
ClearBits(b, bits) ==
    IF bits = {} THEN b
    ELSE LET k == CHOOSE x \in bits : TRUE
         IN  ClearBits(b - Bit(b, k) * 2 ^ k, bits \ {k})

Digits(b) == 10 * (b \div 16) + (b % 16)

FieldNames ==
    <<"seconds", "minutes", "hours", "weekday", "date", "month", "year">>

\* The field kept in time register r.
FieldAt(r) == FieldNames[r + 1]

\* The bits a read accessor clears: as the specification lists them, and as
\* the masks 0x7F, 0x3F, 0x07 and 0x1F clear them.
ClearedAsListed ==
    [seconds |-> {7}, minutes |-> {}, hours |-> {6}, weekday |-> 3 .. 7,
     date |-> {}, month |-> {5}, year |-> {}]

ClearedByMasks ==
    [ClearedAsListed EXCEPT !.hours = {6, 7}, !.month = {5, 6, 7}]

FieldValue(f, b, cleared) ==
    IF f = "weekday" THEN ClearBits(b, cleared[f])
    ELSE Digits(ClearBits(b, cleared[f]))

Failed == \E i \in 1 .. Len(trace) : trace[i].st # HAL_OK

Returned(fn) == pc = "idle" /\ call = fn

\* C1: against a register store that only stores written bytes, SetTime
\* followed by GetTime leaves every field of a ClockState with in-range
\* fields equal to the value it had before SetTime.
C1_SetThenGetRoundTrip ==
    (Returned("GetTime") /\ prev = "SetTime" /\ InNaturalRange(saved))
        => clk = saved

C1_Witness ==
    /\ Returned("GetTime") /\ prev = "SetTime"
    /\ saved = ExampleTime /\ clk = ExampleTime

\* C2 as stated: after Init on a working bus the seconds register holds 0x80,
\* every time field other than weekday is 0 and weekday is MONDAY.
C2_InitZeroesAllFields ==
    (Returned("Init") /\ ~Failed)
        => /\ regs[MCP7940M_REG_RTCSEC] = 128
           /\ clk = ClockState(0, 0, 0, MONDAY, 0, 0, 0)

\* C2, amended: after Init on a working bus the seconds register holds 0x80,
\* seconds, minutes, hours and year are 0, date and month are 1, and weekday
\* is MONDAY.
C2_InitSetsFirstDay ==
    (Returned("Init") /\ ~Failed)
        => /\ regs[MCP7940M_REG_RTCSEC] = 128
           /\ clk.seconds = 0 /\ clk.minutes = 0 /\ clk.hours = 0
           /\ clk.year = 0 /\ clk.date = 1 /\ clk.month = 1
           /\ clk.weekday = 0

C2_Witness ==
    /\ Returned("Init") /\ ~Failed
    /\ Len(trace) = 1 /\ trace[1].op = "write" /\ trace[1].data = 128

\* C3: decoding the encoding of a binary value 0..99 gives the value back.
C3_CodecRoundTrip ==
    (codec.pc = "decoded" /\ codec.binary <= 99) => codec.out = codec.binary

C3_Witness == codec.pc = "decoded" /\ codec.binary = 99 /\ codec.out = 99

\* C4: once Init has run, bit 7 of the stored seconds register is 1 after
\* every SetTime, GetTime and caller assignment, for every 8-bit value of the
\* seconds field (bus writes succeeding).
C4_OscillatorStaysEnabled ==
    pc # "boot" => Bit(regs[MCP7940M_REG_RTCSEC], 7) = 1

C4_Witness ==
    /\ Returned("SetTime") /\ saved.seconds = 255
    /\ Bit(regs[MCP7940M_REG_RTCSEC], 7) = 1

\* C5: when a bus transaction of a GetTime or SetTime call reports a status
\* other than HAL_OK, the call does not return HAL_OK.
C5_FailureIsReported ==
    ((Returned("GetTime") \/ Returned("SetTime")) /\ Failed) => ret # HAL_OK

\* C6 as stated: after Init every field of the ClockState is in its natural
\* range, whatever bytes the device registers hold.
C6_FieldsInNaturalRange == pc # "boot" => InNaturalRange(clk)

\* C6, amended: after Init every field of the ClockState is in the range its
\* mask and the decoding can produce from a byte: seconds 0..85, minutes
\* 0..165, hours 0..45, weekday 0..7, date 0..165, month 0..25, year 0..165.
C6_FieldsInDecodedRange ==
    pc # "boot" =>
        /\ clk.seconds \in 0 .. 85 /\ clk.minutes \in 0 .. 165
        /\ clk.hours \in 0 .. 45 /\ clk.weekday \in 0 .. 7
        /\ clk.date \in 0 .. 165 /\ clk.month \in 0 .. 25
        /\ clk.year \in 0 .. 165

C6_Witness ==
    /\ Returned("GetTime")
    /\ clk.minutes = 165 /\ clk.hours = 45 /\ clk.weekday = 7
    /\ clk.date = 165 /\ clk.month = 25 /\ clk.year = 165

\* C7: every bus transaction uses the device address 0x6F << 1 = 0xDE.
C7_AddressIs0xDE ==
    \A i \in 1 .. Len(trace) :
        trace[i].addr = ShiftLeft(HexLiteral(<<6, 15>>), 1)

\* C8: the transactions of a GetTime call are reads of registers 0x00 to 0x06
\* in that order, seven when it returns; those of a SetTime call are writes
\* to the same registers in the same order; this whether or not transactions
\* fail, and no other register is read or written.
C8_SevenTransactionsInOrder ==
    /\ \A i \in 1 .. Len(trace) : trace[i].reg \in 0 .. 6
    /\ call = "GetTime" =>
         \A i \in 1 .. Len(trace) : trace[i].op = "read" /\ trace[i].reg = i - 1
    /\ call = "SetTime" =>
         \A i \in 1 .. Len(trace) : trace[i].op = "write" /\ trace[i].reg = i - 1
    /\ (Returned("GetTime") \/ Returned("SetTime")) => Len(trace) = 7

C8_Witness ==
    /\ Returned("GetTime") /\ Len(trace) = 7
    /\ trace[3].st = HAL_ERROR /\ trace[7].st = HAL_OK

\* C9 as stated: a successful read stores the decoding of the byte with the
\* field's control bits cleared: seconds bit 7 only, hours bit 6 only, month
\* bit 5 only, minutes, date and year none; weekday stores bits 0-2 undecoded.
C9_ReadClearsListedBits ==
    call = "GetTime" =>
        \A i \in 1 .. Len(trace) :
            trace[i].st = HAL_OK =>
                clk[FieldAt(trace[i].reg)]
                    = FieldValue(FieldAt(trace[i].reg), trace[i].data, ClearedAsListed)

\* C9, amended: as stated, except that hours clears bits 6 and 7 and month
\* clears bits 5, 6 and 7.
C9_ReadClearsMaskedBits ==
    call = "GetTime" =>
        \A i \in 1 .. Len(trace) :
            trace[i].st = HAL_OK =>
                clk[FieldAt(trace[i].reg)]
                    = FieldValue(FieldAt(trace[i].reg), trace[i].data, ClearedByMasks)

C9_Witness ==
    /\ Returned("GetTime")
    /\ trace[3].data = 255 /\ clk.hours = 45
    /\ trace[6].data = 255 /\ clk.month = 25

\* The ClockState is the reading of one content s of the time registers.
ReadingOf(s) ==
    \A r \in TimeRegisters :
        clk[FieldAt(r)] = FieldValue(FieldAt(r), s[r], ClearedByMasks)

\* C10: GetTime is not atomic with respect to the device clock.  A GetTime
\* during which the registers held one content returns the reading of that
\* content; one during which the device advanced can return a combination of
\* fields that the registers held at no instant (the witness).
C10_WholeReadingUnlessClockAdvanced ==
    (Returned("GetTime") /\ Cardinality(snaps) = 1)
        => \A s \in snaps : ReadingOf(s)

C10_Witness ==
    /\ Returned("GetTime")
    /\ Cardinality(snaps) > 1
    /\ \A s \in snaps : ~ReadingOf(s)

====
